---------------------------- MODULE Spec2Model ----------------------------
(***************************************************************************)
(* hamsteroid: the cooldown timer (src/src/cooldown.rs), the heat          *)
(* accumulator and the control step apply_forces (src/src/main.rs) and the *)
(* input producers keyboard_system / gamepad_system (src/src/inputs.rs).   *)
(*                                                                         *)
(* Fixed-point conventions (all values are integers):                      *)
(*   - a Duration of the generic cooldown is a count of time units;        *)
(*   - heat is counted in hundredths (1.0 is 100, 0.1 is 10, 0.01 is 1);   *)
(*   - a Vec2 is a pair <<x, y>> counted in thousandths (1.0 is 1000).     *)
(***************************************************************************)
EXTENDS Integers, Sequences, FiniteSets, TLC

VARIABLES
    \* ---- generic Cooldown (SpecCooldown) ----
    cd,            \* the Cooldown under test: its bevy Timer
    cd_pre,        \* the Cooldown before the last operation (history)
    cd_op,         \* the last operation: "new", "start" or "tick"
    cd_since,      \* time ticked since the most recent start(), -1 before one
    \* ---- Heat alone (SpecHeat) ----
    heat,          \* Heat.amount of the player, in hundredths
    inc_value,     \* the argument of the last Heat::inc call
    \* ---- the control step apply_forces (Spec) ----
    world,             \* what apply_forces reads and writes: its Local
                       \* impulse_cooldown and the player's linvel,
                       \* linear_damping, force and heat, with the history
                       \* fields impulse, last_gated and since_gated
    pre,               \* the world at the start of the last tick (history)
    time_delta,        \* time.delta() of the last tick
    input_events,      \* the events apply_forces read in the last tick
    ticks,             \* number of ticks run
    \* ---- the input producers (SpecInputs) ----
    keyboard_inputs,   \* Input<KeyCode>: pressed, just_pressed, just_released
    gamepads,          \* Gamepads: the connected gamepads, in the order
                       \* gamepads.iter() hands them
    button_inputs,     \* Input<GamepadButton>, of the South buttons
    axes,              \* Axis<GamepadAxis>: the left stick of each gamepad
    keyboard_sent,     \* the events keyboard_system sent this frame
    gamepad_sent,      \* the events gamepad_system sent this frame
    ran,               \* the input systems that have run this frame
    \* ---- one event of the loop of apply_forces (SpecEvent) ----
    arm_world,         \* the world before the event
    arm_event,         \* the event matched
    arm_result,        \* the world after the arm has run
    arm_done,          \* whether the event has been processed
    \* ---- two runs fed the same events (SpecReplay) ----
    run_a,             \* the world of the first run
    run_b,             \* the world of the second run
    replay_events,     \* the events both runs read in the last tick
    replay_ticks,      \* number of ticks both runs have made
    heats_a,           \* heat of the first run after each event of the tick
    heats_b,           \* heat of the second run after each event of the tick
    same_applied,      \* whether every event so far was applied in both
                       \* runs or dropped in both (history)
    \* ---- event delivery between the systems (SpecSchedule) ----
    event_buffers,     \* Events<InputEvent>: its two buffers and counters
    last_event_count,  \* the Local counter of apply_forces's EventReader
    frame,             \* number of the current frame
    sys_ran,           \* the systems that have run in the current frame
    processed          \* the events apply_forces has iterated over, each
                       \* with the frame it was read in (history)

cooldownVars == <<cd, cd_pre, cd_op, cd_since>>
heatVars == <<heat, inc_value>>
controlVars == <<world, pre, time_delta, input_events, ticks>>
inputVars == <<keyboard_inputs, gamepads, button_inputs, axes,
               keyboard_sent, gamepad_sent, ran>>
armVars == <<arm_world, arm_event, arm_result, arm_done>>
replayVars == <<run_a, run_b, replay_events, replay_ticks, heats_a, heats_b,
                same_applied>>
scheduleVars == <<event_buffers, last_event_count, frame, sys_ran, processed>>
vars == <<cd, cd_pre, cd_op, cd_since, heat, inc_value,
          world, pre, time_delta, input_events, ticks,
          keyboard_inputs, gamepads, button_inputs, axes,
          keyboard_sent, gamepad_sent, ran,
          arm_world, arm_event, arm_result, arm_done,
          run_a, run_b, replay_events, replay_ticks, heats_a, heats_b,
          same_applied,
          event_buffers, last_event_count, frame, sys_ran, processed>>

Min(a, b) == IF a < b THEN a ELSE b
Max(a, b) == IF a > b THEN a ELSE b

(***************************************************************************)
(* Bounds of the model.                                                    *)
(***************************************************************************)
MaxDuration == 5      \* longest duration of the generic cooldown
MaxDelta == 6         \* longest single tick of the generic cooldown
MaxHeatDelta == 120   \* largest |delta| given to Heat::inc in SpecHeat
MaxTicks == 3         \* number of ticks of apply_forces explored
MaxEvents == 2        \* most input events read in one tick
MaxReplayTicks == 3   \* number of ticks the two compared runs make
MaxReplayEvents == 1  \* most input events the compared runs read in one tick
MaxFrames == 3        \* number of frames of the schedule explored
MaxLiveEvents == 1    \* most input events read in one tick of the endless run

(***************************************************************************)
(* bevy's non-repeating Timer, as Cooldown uses it.                        *)
(***************************************************************************)
\* Timer::from_seconds(seconds, false): nothing elapsed, not finished.
Timer_from_seconds(seconds) ==
    [duration |-> seconds, elapsed |-> 0, finished |-> FALSE, times_finished |-> 0]

\* a tick that keeps counting past the duration and wraps around
Timer_tick_no_saturation(t, delta) ==
    LET e == t.elapsed + delta IN
    IF e >= t.duration
    THEN [t EXCEPT !.elapsed = e - t.duration, !.finished = (e = t.duration),
                   !.times_finished = 1]
    ELSE [t EXCEPT !.elapsed = e, !.finished = FALSE, !.times_finished = 0]

\* Timer::tick of a non-repeating timer: a finished timer only clears
\* times_finished; otherwise the stopwatch advances, finished is recomputed
\* and the elapsed time is clamped to the duration.
Timer_tick(t, delta) ==
    IF t.finished
    THEN [t EXCEPT !.times_finished = 0]
    ELSE LET e == t.elapsed + delta IN
         IF e >= t.duration
         THEN [t EXCEPT !.elapsed = t.duration, !.finished = TRUE,
                        !.times_finished = 1]
         ELSE [t EXCEPT !.elapsed = e, !.finished = FALSE, !.times_finished = 0]

\* Timer::reset: the stopwatch restarts and the finished flag is cleared.
Timer_reset(t) ==
    [t EXCEPT !.elapsed = 0, !.finished = FALSE, !.times_finished = 0]

(***************************************************************************)
(* Cooldown (src/src/cooldown.rs).                                         *)
(***************************************************************************)
\* a construction that forgets the initial tick
Cooldown_from_seconds_not_available(seconds) == Timer_from_seconds(seconds)

\* Cooldown::from_seconds: a timer ticked once by its own duration.
Cooldown_from_seconds(seconds) ==
    Timer_tick(Timer_from_seconds(seconds), seconds)

\* a start that does not reset the timer
Cooldown_start_no_reset(c) == c

\* Cooldown::start
Cooldown_start(c) == Timer_reset(c)

\* Cooldown::tick
Cooldown_tick(c, delta) == Timer_tick(c, delta)

\* Cooldown::finished
Cooldown_finished(c) == c.finished

(***************************************************************************)
(* Heat (src/src/main.rs).                                                 *)
(***************************************************************************)
HeatOne == 100    \* the upper clamp 1. of Heat::inc, in hundredths

\* f32::clamp(0., 1.)
Clamp01(x) == IF x < 0 THEN 0 ELSE IF x > HeatOne THEN HeatOne ELSE x

\* an inc that forgets the clamp
Heat_inc_no_clamp(amount, value) == amount + value

\* Heat::inc
Heat_inc(amount, value) == Clamp01(amount + value)

(***************************************************************************)
(* Vec2 (glam), in thousandths.  NaN stands for the f32 NaN that           *)
(* Vec2::normalize yields for the zero vector (0 * (1 / 0)).               *)
(***************************************************************************)
Unit == 1000
NaN == 999999999
ZERO == <<0, 0>>
NaNVec == <<NaN, NaN>>

IsNaN(v) == v[1] = NaN \/ v[2] = NaN

\* x * num / den, rounded toward zero
MulDiv(x, num, den) ==
    IF x >= 0 THEN (x * num) \div den ELSE -(((-x) * num) \div den)

\* Vec2 + Vec2
VAdd(a, b) ==
    IF IsNaN(a) \/ IsNaN(b) THEN NaNVec ELSE <<a[1] + b[1], a[2] + b[2]>>

\* Vec2 * f32, the scalar given as the fraction num / den
VScale(v, num, den) ==
    IF IsNaN(v) THEN NaNVec ELSE <<MulDiv(v[1], num, den), MulDiv(v[2], num, den)>>

RECURSIVE SqrtSearch(_, _, _)
SqrtSearch(n, lo, hi) ==
    IF lo >= hi THEN lo
    ELSE LET mid == (lo + hi + 1) \div 2 IN
         IF mid * mid <= n THEN SqrtSearch(n, mid, hi) ELSE SqrtSearch(n, lo, mid - 1)

Abs(x) == IF x < 0 THEN -x ELSE x

\* Vec2::length, in thousandths
Length(v) == SqrtSearch(v[1] * v[1] + v[2] * v[2], 0, Abs(v[1]) + Abs(v[2]))

\* t * t * n <= Unit * Unit * m, computed on the thousands and the units of
\* t * t and of n so that no product leaves the 32-bit integers
SquareTimesLeq(t, n, m) ==
    LET sq == t * t
        sq1 == sq \div Unit
        sq0 == sq % Unit
        n1 == n \div Unit
        n0 == n % Unit
        low == sq0 * n0
        mid == sq1 * n0 + sq0 * n1 + (low \div Unit)
        high == sq1 * n1 + (mid \div Unit)
    IN  \/ high < m
        \/ high = m /\ mid % Unit = 0 /\ low % Unit = 0

\* the largest t in lo..hi with t * t * n <= Unit * Unit * m
RECURSIVE RatioSearch(_, _, _, _)
RatioSearch(n, m, lo, hi) ==
    IF lo >= hi THEN lo
    ELSE LET mid == (lo + hi + 1) \div 2 IN
         IF SquareTimesLeq(mid, n, m) THEN RatioSearch(n, m, mid, hi)
         ELSE RatioSearch(n, m, lo, mid - 1)

\* one component of self * (1 / length): x / sqrt(n) to the nearest
\* thousandth, n the squared length of the vector
UnitComponent(x, n) ==
    LET twice == RatioSearch(n, 4 * x * x, 0, 2 * Unit)
        nearest == (twice + 1) \div 2
    IN  IF x >= 0 THEN nearest ELSE -nearest

\* the vector scaled to length 1
Scaled(v) ==
    <<UnitComponent(v[1], v[1] * v[1] + v[2] * v[2]),
      UnitComponent(v[2], v[1] * v[1] + v[2] * v[2])>>

\* Vec2::normalize: self * (1 / length); NaN for the zero vector
Normalize(v) ==
    IF Length(v) = 0 THEN NaNVec ELSE Scaled(v)

\* Vec2::normalize_or_zero: zero when 1 / length is not finite
NormalizeOrZero(v) ==
    IF Length(v) = 0 THEN ZERO ELSE Scaled(v)

(***************************************************************************)
(* Constants (src/src/main.rs, impl Default for Constants) and the         *)
(* literals of apply_forces.  Time of the control step is counted in units *)
(* of 0.05 s, so the 0.35 s of ImpulseCooldown are 7 units.                *)
(***************************************************************************)
stabilisation_damping == 6
default_damping == 1
impulse_value == 15
force_value == 6
acceleration_value_tenths == 3       \* acceleration_value: 0.3
ImpulseCooldownSeconds == 7          \* Cooldown::from_seconds(0.35)
ImpulseHeat == 10                    \* heat.inc(0.1) of Impulse
AccelerateHeat == 10                 \* heat.inc(0.1) of Accelerate
ForceHeat == 1                       \* heat.inc(0.01) of Force
StabilisationHeat == -100            \* heat.inc(-1.) of Stabilisation
EffectiveInvMass == 3537             \* 1 / (pi * 0.3^2), ball of density 1

\* impl Default for ImpulseCooldown
ImpulseCooldown_default == Cooldown_from_seconds(ImpulseCooldownSeconds)

(***************************************************************************)
(* InputEvent (src/src/inputs.rs).  Every variant carries a direction      *)
(* field; it is ZERO for the two variants without one.                     *)
(***************************************************************************)
Impulse(direction) == [type |-> "Impulse", direction |-> direction]
Force(direction) == [type |-> "Force", direction |-> direction]
Stabilisation == [type |-> "Stabilisation", direction |-> ZERO]
Accelerate == [type |-> "Accelerate", direction |-> ZERO]

(***************************************************************************)
(* apply_forces (src/src/main.rs).  A world w is the state the system      *)
(* reads and writes: its Local cooldown and the player's components.  It   *)
(* carries three history fields that the code does not have and that       *)
(* nothing below reads to decide what to do: impulse, the sum of the       *)
(* impulses given to apply_impulse in the current tick, last_gated, the    *)
(* kind of the last applied gated event, and since_gated, the time ticked  *)
(* since that event (capped at twice the cooldown).                        *)
(***************************************************************************)
\* RigidBodyVelocity::apply_impulse: linvel += impulse * effective_inv_mass
apply_impulse(w, imp) ==
    [w EXCEPT !.linvel = VAdd(w.linvel, VScale(imp, EffectiveInvMass, Unit)),
              !.impulse = VAdd(w.impulse, imp)]

\* an Impulse arm that restarts the cooldown when it drops the event
on_impulse_restart_when_dropped(w, direction) ==
    IF ~Cooldown_finished(w.impulse_cooldown)
    THEN [w EXCEPT !.impulse_cooldown = Cooldown_start(@)]
    ELSE LET started == [w EXCEPT !.impulse_cooldown = Cooldown_start(@),
                                  !.last_gated = "Impulse",
                                  !.since_gated = 0]
             pushed == apply_impulse(
                           [started EXCEPT !.linear_damping = default_damping],
                           VScale(direction, impulse_value, 1))
         IN  [pushed EXCEPT !.heat = Heat_inc(@, ImpulseHeat)]

\* an Impulse arm that sets the default damping before the cooldown test
on_impulse_damping_before_gate(w, direction) ==
    IF ~Cooldown_finished(w.impulse_cooldown)
    THEN [w EXCEPT !.linear_damping = default_damping]
    ELSE LET started == [w EXCEPT !.impulse_cooldown = Cooldown_start(@),
                                  !.last_gated = "Impulse",
                                  !.since_gated = 0]
             pushed == apply_impulse(
                           [started EXCEPT !.linear_damping = default_damping],
                           VScale(direction, impulse_value, 1))
         IN  [pushed EXCEPT !.heat = Heat_inc(@, ImpulseHeat)]

\* an Impulse arm that scales the direction by force_value
on_impulse_force_value(w, direction) ==
    IF ~Cooldown_finished(w.impulse_cooldown)
    THEN w
    ELSE LET started == [w EXCEPT !.impulse_cooldown = Cooldown_start(@),
                                  !.last_gated = "Impulse",
                                  !.since_gated = 0]
             pushed == apply_impulse(
                           [started EXCEPT !.linear_damping = default_damping],
                           VScale(direction, force_value, 1))
         IN  [pushed EXCEPT !.heat = Heat_inc(@, ImpulseHeat)]

\* the arm InputEvent::Impulse { direction }
on_impulse(w, direction) ==
    IF ~Cooldown_finished(w.impulse_cooldown)
    THEN w
    ELSE LET started == [w EXCEPT !.impulse_cooldown = Cooldown_start(@),
                                  !.last_gated = "Impulse",
                                  !.since_gated = 0]
             pushed == apply_impulse(
                           [started EXCEPT !.linear_damping = default_damping],
                           VScale(direction, impulse_value, 1))
         IN  [pushed EXCEPT !.heat = Heat_inc(@, ImpulseHeat)]

\* a Stabilisation arm that cools by the step the other arms heat by
on_stabilisation_small_decay(w) ==
    [w EXCEPT !.linear_damping = stabilisation_damping,
              !.heat = Heat_inc(@, -ImpulseHeat)]

\* a Stabilisation arm gated by the cooldown like its neighbours
on_stabilisation_gated(w) ==
    IF ~Cooldown_finished(w.impulse_cooldown)
    THEN w
    ELSE [w EXCEPT !.linear_damping = stabilisation_damping,
                   !.heat = Heat_inc(@, StabilisationHeat)]

\* the arm InputEvent::Stabilisation
on_stabilisation(w) ==
    [w EXCEPT !.linear_damping = stabilisation_damping,
              !.heat = Heat_inc(@, StabilisationHeat)]

\* an Accelerate arm that sets the default damping as the Impulse arm does
on_accelerate_default_damping(w) ==
    IF ~Cooldown_finished(w.impulse_cooldown)
    THEN w
    ELSE LET started == [w EXCEPT !.impulse_cooldown = Cooldown_start(@),
                                  !.last_gated = "Accelerate",
                                  !.since_gated = 0]
             pushed == apply_impulse(
                           [started EXCEPT !.linear_damping = default_damping],
                           VScale(w.linvel, acceleration_value_tenths, 10))
         IN  [pushed EXCEPT !.heat = Heat_inc(@, AccelerateHeat)]

\* an Accelerate arm that heats the body only when it is moving
on_accelerate_heat_when_moving(w) ==
    IF ~Cooldown_finished(w.impulse_cooldown)
    THEN w
    ELSE LET started == [w EXCEPT !.impulse_cooldown = Cooldown_start(@),
                                  !.last_gated = "Accelerate",
                                  !.since_gated = 0]
             pushed == apply_impulse(
                           started,
                           VScale(w.linvel, acceleration_value_tenths, 10))
         IN  [pushed EXCEPT !.heat = IF w.linvel = ZERO THEN @
                                     ELSE Heat_inc(@, AccelerateHeat)]

on_accelerate_ungated(w) ==
    LET started == [w EXCEPT !.impulse_cooldown = Cooldown_start(@),
                             !.last_gated = "Accelerate",
                             !.since_gated = 0]
        pushed == apply_impulse(
                      started,
                      VScale(w.linvel, acceleration_value_tenths, 10))
    IN  [pushed EXCEPT !.heat = Heat_inc(@, AccelerateHeat)]

\* the arm InputEvent::Accelerate
on_accelerate(w) ==
    IF ~Cooldown_finished(w.impulse_cooldown)
    THEN w
    ELSE LET started == [w EXCEPT !.impulse_cooldown = Cooldown_start(@),
                                  !.last_gated = "Accelerate",
                                  !.since_gated = 0]
             pushed == apply_impulse(
                           started,
                           VScale(w.linvel, acceleration_value_tenths, 10))
         IN  [pushed EXCEPT !.heat = Heat_inc(@, AccelerateHeat)]

\* a Force arm that adds to the force already set
on_force_accumulating(w, direction) ==
    [w EXCEPT !.linear_damping = default_damping,
              !.force = VAdd(@, VScale(direction, force_value, 1)),
              !.heat = Heat_inc(@, ForceHeat)]

\* the arm InputEvent::Force { direction }
on_force(w, direction) ==
    [w EXCEPT !.linear_damping = default_damping,
              !.force = VScale(direction, force_value, 1),
              !.heat = Heat_inc(@, ForceHeat)]

\* the match of apply_forces on one event
on_event(w, ev) ==
    CASE ev.type = "Impulse" -> on_impulse(w, ev.direction)
      [] ev.type = "Stabilisation" -> on_stabilisation(w)
      [] ev.type = "Accelerate" -> on_accelerate(w)
      [] ev.type = "Force" -> on_force(w, ev.direction)

\* the loop of apply_forces over input_events.iter(), in emission order
RECURSIVE process_events(_, _)
process_events(w, events) ==
    IF events = <<>> THEN w
    ELSE process_events(on_event(w, Head(events)), Tail(events))

\* an apply_forces that never advances the cooldown
tick_cooldown_not_ticked(w, delta) == w

\* impulse_cooldown.0.tick(time.delta()), the first statement of apply_forces
tick_cooldown(w, delta) ==
    [w EXCEPT !.impulse_cooldown = Cooldown_tick(@, delta),
              !.since_gated = Min(@ + delta, 2 * ImpulseCooldownSeconds)]

\* an apply_forces that ticks the cooldown after the events
apply_forces_tick_last(w, delta, events) ==
    tick_cooldown(process_events(w, events), delta)

\* apply_forces: tick the cooldown, then process the events
apply_forces(w, delta, events) ==
    process_events(tick_cooldown(w, delta), events)

(***************************************************************************)
(* The input producers (src/src/inputs.rs).  An Input<T> is a record of    *)
(* three sets: pressed, just_pressed and just_released.                    *)
(***************************************************************************)
Keys == {"A", "Space", "Up", "Down", "Left", "Right"}

\* a sequence of one event when the condition holds, no event otherwise
SendIf(cond, ev) == IF cond THEN <<ev>> ELSE <<>>

\* a keyboard_direction whose Down arm adds the Up vector
keyboard_direction_down_as_up(inp) ==
    LET up == IF "Up" \in inp.pressed THEN <<0, Unit>> ELSE ZERO
        down == IF "Down" \in inp.pressed THEN <<0, Unit>> ELSE ZERO
        left == IF "Left" \in inp.pressed THEN <<-Unit, 0>> ELSE ZERO
        right == IF "Right" \in inp.pressed THEN <<Unit, 0>> ELSE ZERO
    IN  NormalizeOrZero(VAdd(VAdd(VAdd(VAdd(ZERO, up), down), left), right))

\* keyboard_direction: the sum of the held arrows, normalized or zero
keyboard_direction(inp) ==
    LET up == IF "Up" \in inp.pressed THEN <<0, Unit>> ELSE ZERO
        down == IF "Down" \in inp.pressed THEN <<0, -Unit>> ELSE ZERO
        left == IF "Left" \in inp.pressed THEN <<-Unit, 0>> ELSE ZERO
        right == IF "Right" \in inp.pressed THEN <<Unit, 0>> ELSE ZERO
    IN  NormalizeOrZero(VAdd(VAdd(VAdd(VAdd(ZERO, up), down), left), right))

\* keyboard_system: the events it sends, in order
keyboard_system(inp) ==
    SendIf("A" \in inp.just_pressed, Accelerate)
      \o SendIf("Space" \in inp.just_pressed, Stabilisation)
      \o (IF "Space" \in inp.just_released
          THEN SendIf(keyboard_direction(inp) # ZERO, Impulse(keyboard_direction(inp)))
          ELSE <<>>)
      \o (IF "Space" \notin inp.pressed
          THEN SendIf(keyboard_direction(inp) # ZERO, Force(keyboard_direction(inp)))
          ELSE <<>>)

\* the body of the loop of gamepad_system, for one gamepad
gamepad_events(gamepad, buttons, stick) ==
    SendIf(<<gamepad, "South">> \in buttons.just_pressed, Stabilisation)
      \o SendIf(<<gamepad, "South">> \in buttons.just_released,
                Impulse(Normalize(stick[gamepad])))

\* gamepad_system: the loop over gamepads.iter(), pads being the gamepads
\* in the order the iterator hands them (Gamepads keeps them in a hash set:
\* the order is not sorted and not fixed)
RECURSIVE gamepad_system(_, _, _)
gamepad_system(pads, buttons, stick) ==
    IF pads = <<>> THEN <<>>
    ELSE gamepad_events(Head(pads), buttons, stick)
           \o gamepad_system(Tail(pads), buttons, stick)

(***************************************************************************)
(* Initial values of the parts a specification does not exercise.          *)
(***************************************************************************)
IdleCooldown ==
    /\ cd = Cooldown_from_seconds(0)
    /\ cd_pre = Cooldown_from_seconds(0)
    /\ cd_op = "new"
    /\ cd_since = -1

IdleHeat ==
    /\ heat = 0
    /\ inc_value = 0

\* setup_physics: the player is spawned at rest with Heat { amount: 0. },
\* the default damping and no force; the Local cooldown starts available.
InitWorld ==
    [impulse_cooldown |-> ImpulseCooldown_default,
     linvel |-> ZERO,
     linear_damping |-> default_damping,
     force |-> ZERO,
     heat |-> 0,
     impulse |-> ZERO,
     last_gated |-> "none",
     since_gated |-> 0]

IdleControl ==
    /\ world = InitWorld
    /\ pre = InitWorld
    /\ time_delta = 0
    /\ input_events = <<>>
    /\ ticks = 0

NoInput == [pressed |-> {}, just_pressed |-> {}, just_released |-> {}]

IdleInputs ==
    /\ keyboard_inputs = NoInput
    /\ gamepads = <<>>
    /\ button_inputs = NoInput
    /\ axes = <<>>
    /\ keyboard_sent = <<>>
    /\ gamepad_sent = <<>>
    /\ ran = {}

IdleArm ==
    /\ arm_world = InitWorld
    /\ arm_event = Stabilisation
    /\ arm_result = InitWorld
    /\ arm_done = FALSE

IdleReplay ==
    /\ run_a = InitWorld
    /\ run_b = InitWorld
    /\ replay_events = <<>>
    /\ replay_ticks = 0
    /\ heats_a = <<>>
    /\ heats_b = <<>>
    /\ same_applied = TRUE

\* Events::default(): both buffers empty, nothing sent; a fresh EventReader
NoEvents ==
    [events_a |-> <<>>, events_b |-> <<>>, a_start_event_count |-> 0,
     b_start_event_count |-> 0, event_count |-> 0, state |-> "A"]

IdleSchedule ==
    /\ event_buffers = NoEvents
    /\ last_event_count = 0
    /\ frame = 0
    /\ sys_ran = {}
    /\ processed = <<>>

(***************************************************************************)
(* SpecCooldown: one Cooldown of any duration, started and ticked.         *)
(***************************************************************************)
InitCooldown ==
    /\ \E seconds \in 0..MaxDuration :
          /\ cd = Cooldown_from_seconds(seconds)
          /\ cd_pre = Cooldown_from_seconds(seconds)
    /\ cd_op = "new"
    /\ cd_since = -1
    /\ IdleHeat
    /\ IdleControl
    /\ IdleInputs
    /\ IdleArm
    /\ IdleReplay
    /\ IdleSchedule

CooldownStart ==
    /\ cd_pre' = cd
    /\ cd' = Cooldown_start(cd)
    /\ cd_op' = "start"
    /\ cd_since' = 0
    /\ UNCHANGED <<heatVars, controlVars, inputVars, armVars, replayVars, scheduleVars>>

CooldownTick ==
    \E delta \in 0..MaxDelta :
        /\ cd_pre' = cd
        /\ cd' = Cooldown_tick(cd, delta)
        /\ cd_op' = "tick"
        /\ cd_since' = IF cd_since < 0 THEN cd_since
                       ELSE Min(cd_since + delta, MaxDuration + MaxDelta)
        /\ UNCHANGED <<heatVars, controlVars, inputVars, armVars, replayVars, scheduleVars>>

NextCooldown == CooldownStart \/ CooldownTick

SpecCooldown == InitCooldown /\ [][NextCooldown]_vars

(***************************************************************************)
(* SpecHeat: Heat::inc called with arbitrary deltas.                       *)
(***************************************************************************)
InitHeat ==
    /\ heat = 0
    /\ inc_value = 0
    /\ IdleCooldown
    /\ IdleControl
    /\ IdleInputs
    /\ IdleArm
    /\ IdleReplay
    /\ IdleSchedule

HeatInc ==
    \E value \in (-MaxHeatDelta)..MaxHeatDelta :
        /\ heat' = Heat_inc(heat, value)
        /\ inc_value' = value
        /\ UNCHANGED <<cooldownVars, controlVars, inputVars, armVars, replayVars, scheduleVars>>

NextHeat == HeatInc

SpecHeat == InitHeat /\ [][NextHeat]_vars

(***************************************************************************)
(* Spec: the control step, one tick of apply_forces per step.  Between two *)
(* ticks the physics engine integrates the body, so each tick starts from  *)
(* a velocity the engine chose; the force field is written by apply_forces *)
(* only.                                                                   *)
(***************************************************************************)
\* time.delta() of a tick, in units of 0.05 s
Deltas == {0, 3, 4, 7}

\* velocities the physics engine may hand to a tick
Velocities == {ZERO, <<2000, -1000>>}

\* directions carried by Impulse and Force events
Directions == {NormalizeOrZero(<<Unit, 0>>), NormalizeOrZero(<<-Unit, Unit>>)}

EventAlphabet ==
    {Impulse(d) : d \in Directions} \cup {Force(d) : d \in Directions}
        \cup {Stabilisation, Accelerate}

EventSeqs == UNION {[1..n -> EventAlphabet] : n \in 0..MaxEvents}

Init ==
    /\ IdleControl
    /\ IdleHeat
    /\ IdleCooldown
    /\ IdleInputs
    /\ IdleArm
    /\ IdleReplay
    /\ IdleSchedule

\* one frame: the engine has integrated the body (the impulses of the
\* previous tick are consumed), then apply_forces runs to completion
Tick ==
    /\ ticks < MaxTicks
    /\ \E delta \in Deltas, events \in EventSeqs, v \in Velocities :
          /\ pre' = [world EXCEPT !.linvel = v, !.impulse = ZERO]
          /\ time_delta' = delta
          /\ input_events' = events
          /\ world' = apply_forces(pre', delta, events)
          /\ ticks' = ticks + 1
    /\ UNCHANGED <<cooldownVars, heatVars, inputVars, armVars, replayVars, scheduleVars>>

Next == Tick

Spec == Init /\ [][Next]_vars

\* the world before the i-th event of the last tick is processed
Before(i) == process_events(tick_cooldown(pre, time_delta), SubSeq(input_events, 1, i - 1))

\* the world after the i-th event of the last tick is processed
After(i) == process_events(tick_cooldown(pre, time_delta), SubSeq(input_events, 1, i))

EventIndices == 1..Len(input_events)

(***************************************************************************)
(* SpecEvent: one iteration of the loop of apply_forces.  The match on an  *)
(* event is a function of the world and the event: the world is drawn from *)
(* the worlds the game can be in (any heat, the cooldown fresh or started  *)
(* and ticked by any amount, either damping, any force a Force event       *)
(* leaves, any velocity) and one event is processed.                       *)
(***************************************************************************)
\* the fresh cooldown, and the cooldown started and ticked by e
ArmCooldowns ==
    {ImpulseCooldown_default}
        \cup {Cooldown_tick(Cooldown_start(ImpulseCooldown_default), e) :
                  e \in 0..ImpulseCooldownSeconds}

\* the forces a Force event leaves behind, and no force
ArmForces == {ZERO} \cup {VScale(d, force_value, 1) : d \in Directions}

ArmWorlds ==
    {[impulse_cooldown |-> c,
      linvel |-> v,
      linear_damping |-> d,
      force |-> f,
      heat |-> h,
      impulse |-> ZERO,
      last_gated |-> IF c = ImpulseCooldown_default THEN "none" ELSE "Impulse",
      since_gated |-> c.elapsed * (IF c = ImpulseCooldown_default THEN 0 ELSE 1)] :
        c \in ArmCooldowns, v \in Velocities,
        d \in {default_damping, stabilisation_damping},
        f \in ArmForces, h \in 0..HeatOne}

InitEvent ==
    /\ arm_world \in ArmWorlds
    /\ arm_event = Stabilisation
    /\ arm_result = arm_world
    /\ arm_done = FALSE
    /\ IdleCooldown
    /\ IdleHeat
    /\ IdleControl
    /\ IdleInputs
    /\ IdleReplay
    /\ IdleSchedule

\* the body of `for event in input_events.iter()` for one event
ProcessEvent ==
    /\ ~arm_done
    /\ \E ev \in EventAlphabet :
          /\ arm_event' = ev
          /\ arm_result' = on_event(arm_world, ev)
    /\ arm_done' = TRUE
    /\ UNCHANGED <<arm_world, cooldownVars, heatVars, controlVars, inputVars,
                   replayVars, scheduleVars>>

NextEvent == ProcessEvent

SpecEvent == InitEvent /\ [][NextEvent]_vars

(***************************************************************************)
(* SpecReplay: two runs of apply_forces started from the same world and    *)
(* fed the same events tick by tick; the delta of a tick and the velocity  *)
(* the engine hands it are chosen for each run separately.                 *)
(***************************************************************************)
ReplayDeltas == {0, 4, 7}

ReplaySeqs == UNION {[1..n -> EventAlphabet] : n \in 0..MaxReplayEvents}

\* the world a tick of apply_forces starts from
ReplayPre(w, v) == [w EXCEPT !.linvel = v, !.impulse = ZERO]

\* the world after the first i events of a tick
ReplayPrefix(w, delta, evs, i) ==
    process_events(tick_cooldown(w, delta), SubSeq(evs, 1, i))

\* heat after each event of a tick
ReplayHeats(w, delta, evs) ==
    [i \in 1..Len(evs) |-> ReplayPrefix(w, delta, evs, i).heat]

\* the indices of the gated events of a tick that were applied
ReplayApplied(w, delta, evs) ==
    {i \in 1..Len(evs) :
        /\ evs[i].type \in {"Impulse", "Accelerate"}
        /\ ReplayPrefix(w, delta, evs, i) # ReplayPrefix(w, delta, evs, i - 1)}

InitReplay ==
    /\ IdleReplay
    /\ IdleCooldown
    /\ IdleHeat
    /\ IdleControl
    /\ IdleInputs
    /\ IdleArm
    /\ IdleSchedule

\* one frame of each run: the same events, each run its own delta and
\* velocity
ReplayTick ==
    /\ replay_ticks < MaxReplayTicks
    /\ \E evs \in ReplaySeqs, da \in ReplayDeltas, db \in ReplayDeltas,
          va \in Velocities, vb \in Velocities :
          /\ replay_events' = evs
          /\ run_a' = apply_forces(ReplayPre(run_a, va), da, evs)
          /\ run_b' = apply_forces(ReplayPre(run_b, vb), db, evs)
          /\ heats_a' = ReplayHeats(ReplayPre(run_a, va), da, evs)
          /\ heats_b' = ReplayHeats(ReplayPre(run_b, vb), db, evs)
          /\ same_applied' =
                 ( /\ same_applied
                   /\ ReplayApplied(ReplayPre(run_a, va), da, evs)
                          = ReplayApplied(ReplayPre(run_b, vb), db, evs) )
    /\ replay_ticks' = replay_ticks + 1
    /\ UNCHANGED <<cooldownVars, heatVars, controlVars, inputVars, armVars,
                   scheduleVars>>

NextReplay == ReplayTick

SpecReplay == InitReplay /\ [][NextReplay]_vars

(***************************************************************************)
(* The inputs the producers read.                                          *)
(***************************************************************************)
\* An Input<T> over the set all, with the just_* bits of the elements in
\* edges (the only ones a system reads) free.  Input::press adds to
\* just_pressed only what was not pressed, and Input::release removes from
\* pressed, so an element just pressed and no longer pressed was released
\* in the frame, and one released and pressed again was just pressed.
InputStates(all, edges) ==
    {[pressed |-> p, just_pressed |-> jp, just_released |-> jr] :
        <<p, jp, jr>> \in
            {t \in (SUBSET all) \X (SUBSET edges) \X (SUBSET edges) :
                /\ (t[2] \ t[1]) \subseteq t[3]
                /\ (t[3] \cap t[1]) \subseteq t[2]}}

\* the states of the keyboard keyboard_system tells apart
KeyboardStates == InputStates(Keys, {"A", "Space"})

\* values of one axis of the left stick: a released stick reads 0, the
\* smallest tilt that is not read as 0 is 0.05
StickValues == {-Unit, 0, 50, 600}

\* the gamepads that may be connected
GamepadIds == {0, 1}

\* the orders gamepads.iter() may hand the connected gamepads in: every
\* arrangement of every subset of GamepadIds
GamepadOrders ==
    {pads \in UNION {[1..n -> GamepadIds] : n \in 0..Cardinality(GamepadIds)} :
        \A i \in 1..Len(pads), j \in 1..Len(pads) : pads[i] = pads[j] => i = j}

\* the connected gamepads
Connected(pads) == {pads[i] : i \in 1..Len(pads)}

\* the South buttons of the connected gamepads
SouthButtons(pads) == {<<g, "South">> : g \in Connected(pads)}

\* the states of the South buttons gamepad_system tells apart
ButtonStates(pads) == InputStates(SouthButtons(pads), SouthButtons(pads))

\* how many events keyboard_system can send in one run
KeyboardSends == {Len(keyboard_system(inp)) : inp \in KeyboardStates}

\* how many events gamepad_system can send in one run
GamepadSends ==
    UNION {{Len(gamepad_system(pads, b, [g \in Connected(pads) |-> <<Unit, 0>>])) :
               b \in ButtonStates(pads)} : pads \in GamepadOrders}

(***************************************************************************)
(* SpecSchedule: the delivery of InputEvents.  InputsPlugin::build calls   *)
(* add_event, which creates the double-buffered Events<InputEvent> and     *)
(* runs Events::update_system in the stage First of every frame;           *)
(* gamepad_system and keyboard_system send through an EventWriter and      *)
(* apply_forces reads through an EventReader.  The three systems are added *)
(* to the stage Update with no label and no before/after constraint, so    *)
(* each runs once per frame, in any order.  An event is recorded as the    *)
(* system that sent it and the frame it was sent in.                       *)
(***************************************************************************)
Producers == {"gamepad_system", "keyboard_system"}

Systems == Producers \cup {"apply_forces"}

\* Events::send: the event gets the next id and goes to the current buffer
Events_send(es, payload) ==
    LET instance == [event_id |-> es.event_count, event |-> payload]
        counted == [es EXCEPT !.event_count = @ + 1]
    IN  IF es.state = "A"
        THEN [counted EXCEPT !.events_a = Append(@, instance)]
        ELSE [counted EXCEPT !.events_b = Append(@, instance)]

\* EventWriter::send called n times by one system in one frame
RECURSIVE Events_send_all(_, _, _, _)
Events_send_all(es, by, fr, n) ==
    IF n = 0 THEN es
    ELSE Events_send(Events_send_all(es, by, fr, n - 1),
                     [by |-> by, sent_frame |-> fr, nth |-> n])

\* Events::update: the older buffer is emptied and becomes the current one
Events_update(es) ==
    IF es.state = "A"
    THEN [es EXCEPT !.events_b = <<>>, !.state = "B",
                    !.b_start_event_count = es.event_count]
    ELSE [es EXCEPT !.events_a = <<>>, !.state = "A",
                    !.a_start_event_count = es.event_count]

\* the part of a buffer whose ids the reader has not seen yet
Events_unread(buffer, start, last) ==
    SubSeq(buffer, (IF last > start THEN last - start ELSE 0) + 1, Len(buffer))

\* EventReader::iter: the unread events of the older buffer, then those of
\* the current one
EventReader_iter(last, es) ==
    LET a == Events_unread(es.events_a, es.a_start_event_count, last)
        b == Events_unread(es.events_b, es.b_start_event_count, last)
    IN  IF es.state = "A" THEN b \o a ELSE a \o b

InitSchedule ==
    /\ IdleSchedule
    /\ IdleCooldown
    /\ IdleHeat
    /\ IdleControl
    /\ IdleInputs
    /\ IdleArm
    /\ IdleReplay

\* the stage First of a new frame: Events::update_system
UpdateEvents ==
    /\ frame < MaxFrames
    /\ frame = 0 \/ sys_ran = Systems
    /\ frame' = frame + 1
    /\ sys_ran' = {}
    /\ event_buffers' = Events_update(event_buffers)
    /\ UNCHANGED <<last_event_count, processed>>
    /\ UNCHANGED <<cooldownVars, heatVars, controlVars, inputVars, armVars,
                   replayVars>>

\* gamepad_system runs and sends its events of this frame
GamepadSystemRuns ==
    /\ frame > 0
    /\ "gamepad_system" \notin sys_ran
    /\ \E n \in GamepadSends :
          event_buffers' = Events_send_all(event_buffers, "gamepad_system", frame, n)
    /\ sys_ran' = sys_ran \cup {"gamepad_system"}
    /\ UNCHANGED <<last_event_count, frame, processed>>
    /\ UNCHANGED <<cooldownVars, heatVars, controlVars, inputVars, armVars,
                   replayVars>>

\* keyboard_system runs and sends its events of this frame
KeyboardSystemRuns ==
    /\ frame > 0
    /\ "keyboard_system" \notin sys_ran
    /\ \E n \in KeyboardSends :
          event_buffers' = Events_send_all(event_buffers, "keyboard_system", frame, n)
    /\ sys_ran' = sys_ran \cup {"keyboard_system"}
    /\ UNCHANGED <<last_event_count, frame, processed>>
    /\ UNCHANGED <<cooldownVars, heatVars, controlVars, inputVars, armVars,
                   replayVars>>

\* apply_forces runs: its loop iterates over input_events.iter()
ApplyForcesRuns ==
    /\ frame > 0
    /\ "apply_forces" \notin sys_ran
    /\ processed' = processed \o
           [i \in 1..Len(EventReader_iter(last_event_count, event_buffers)) |->
               [event_id |-> EventReader_iter(last_event_count, event_buffers)[i].event_id,
                event |-> EventReader_iter(last_event_count, event_buffers)[i].event,
                read_frame |-> frame]]
    /\ last_event_count' = event_buffers.event_count
    /\ sys_ran' = sys_ran \cup {"apply_forces"}
    /\ UNCHANGED <<event_buffers, frame>>
    /\ UNCHANGED <<cooldownVars, heatVars, controlVars, inputVars, armVars,
                   replayVars>>

NextSchedule ==
    \/ UpdateEvents
    \/ GamepadSystemRuns
    \/ KeyboardSystemRuns
    \/ ApplyForcesRuns

SpecSchedule == InitSchedule /\ [][NextSchedule]_vars

(***************************************************************************)
(* SpecLive: apply_forces run frame after frame without end.  The app runs *)
(* the system in every frame, so ticks keep occurring; a frame's delta is  *)
(* zero or positive, and frames with a positive delta keep occurring.      *)
(***************************************************************************)
LivePositiveDeltas == {3, 4}

\* the events that consult the cooldown, and a Stabilisation between them
LiveEvents ==
    {Impulse(NormalizeOrZero(<<-Unit, Unit>>)), Accelerate, Stabilisation}

LiveSeqs == UNION {[1..n -> LiveEvents] : n \in 0..MaxLiveEvents}

InitLive ==
    /\ IdleControl
    /\ IdleHeat
    /\ IdleCooldown
    /\ IdleInputs
    /\ IdleArm
    /\ IdleReplay
    /\ IdleSchedule

\* the velocity the physics engine hands to a frame: the body keeps moving
LiveVelocities == {<<2000, -1000>>}

\* one frame of apply_forces with the given delta
LiveFrame(delta) ==
    /\ \E evs \in LiveSeqs, v \in LiveVelocities :
          /\ pre' = [world EXCEPT !.linvel = v, !.impulse = ZERO]
          /\ time_delta' = delta
          /\ input_events' = evs
          /\ world' = apply_forces(pre', delta, evs)
    /\ ticks' = Min(ticks + 1, MaxTicks)
    /\ UNCHANGED <<cooldownVars, heatVars, inputVars, armVars, replayVars,
                   scheduleVars>>

\* a frame in which no time has passed
LiveTickZero == LiveFrame(0)

\* a frame in which time has passed
LiveTickPositive == \E delta \in LivePositiveDeltas : LiveFrame(delta)

NextLive == LiveTickZero \/ LiveTickPositive

SpecLive == InitLive /\ [][NextLive]_vars /\ WF_vars(LiveTickPositive)

(***************************************************************************)
(* SpecInputs: one frame of the two input systems.  The frame starts from  *)
(* any state bevy's input update can leave in the resources the systems    *)
(* read, and the two systems run once each, in either order.  With two     *)
(* gamepads connected only the keyboard at rest is enumerated (the systems *)
(* read disjoint resources).                                               *)
(***************************************************************************)
InitInputs ==
    /\ gamepads \in GamepadOrders
    /\ keyboard_inputs \in
          IF Len(gamepads) <= 1 THEN KeyboardStates ELSE {NoInput}
    /\ button_inputs \in ButtonStates(gamepads)
    /\ axes \in [Connected(gamepads) -> StickValues \X StickValues]
    /\ keyboard_sent = <<>>
    /\ gamepad_sent = <<>>
    /\ ran = {}
    /\ IdleCooldown
    /\ IdleHeat
    /\ IdleControl
    /\ IdleArm
    /\ IdleReplay
    /\ IdleSchedule

KeyboardSystem ==
    /\ "keyboard_system" \notin ran
    /\ keyboard_sent' = keyboard_system(keyboard_inputs)
    /\ ran' = ran \cup {"keyboard_system"}
    /\ UNCHANGED <<keyboard_inputs, gamepads, button_inputs, axes, gamepad_sent>>
    /\ UNCHANGED <<cooldownVars, heatVars, controlVars, armVars, replayVars, scheduleVars>>

GamepadSystem ==
    /\ "gamepad_system" \notin ran
    /\ gamepad_sent' = gamepad_system(gamepads, button_inputs, axes)
    /\ ran' = ran \cup {"gamepad_system"}
    /\ UNCHANGED <<keyboard_inputs, gamepads, button_inputs, axes, keyboard_sent>>
    /\ UNCHANGED <<cooldownVars, heatVars, controlVars, armVars, replayVars, scheduleVars>>

NextInputs == KeyboardSystem \/ GamepadSystem

SpecInputs == InitInputs /\ [][NextInputs]_vars

\* the events of a sequence that are of one of the given types
OfType(events, types) == SelectSeq(events, LAMBDA e : e.type \in types)

\* the vector sum of the held arrow keys, in whole units
HeldSum ==
    <<(IF "Right" \in keyboard_inputs.pressed THEN 1 ELSE 0)
        - (IF "Left" \in keyboard_inputs.pressed THEN 1 ELSE 0),
      (IF "Up" \in keyboard_inputs.pressed THEN 1 ELSE 0)
        - (IF "Down" \in keyboard_inputs.pressed THEN 1 ELSE 0)>>

(***************************************************************************)
(* Claims about the input producers (SpecInputs).                          *)
(***************************************************************************)
\* C9: no producer emits an Impulse or Force for a zero input vector: when
\* the held arrows sum to zero keyboard_system sends neither, when every
\* connected stick is at rest gamepad_system sends no Impulse, and no event
\* sent carries a zero or undefined (NaN) direction.
NoEventForZeroInput ==
    /\ ("keyboard_system" \in ran /\ HeldSum = ZERO)
          => OfType(keyboard_sent, {"Impulse", "Force"}) = <<>>
    /\ ( /\ "gamepad_system" \in ran
         /\ \A g \in Connected(gamepads) : axes[g] = ZERO )
          => OfType(gamepad_sent, {"Impulse"}) = <<>>
    /\ \A i \in 1..Len(keyboard_sent) :
          keyboard_sent[i].type \in {"Impulse", "Force"}
              => keyboard_sent[i].direction \notin {ZERO, NaNVec}
    /\ \A i \in 1..Len(gamepad_sent) :
          gamepad_sent[i].type \in {"Impulse", "Force"}
              => gamepad_sent[i].direction \notin {ZERO, NaNVec}

\* C10: keyboard_system sends a Force event in a frame exactly when Space
\* is not pressed and the held arrows do not cancel out, and then it sends
\* exactly one, along the normalized sum; opposite holds send none.
ForceIffHeldDirection ==
    "keyboard_system" \in ran
        => LET sent == OfType(keyboard_sent, {"Force"})
               due == "Space" \notin keyboard_inputs.pressed /\ HeldSum # ZERO
           IN  /\ Len(sent) = (IF due THEN 1 ELSE 0)
               /\ due => sent[1].direction
                            = NormalizeOrZero(VScale(HeldSum, Unit, 1))

\* C10 witness: Up, Down and Left are held without Space: the vertical pair
\* cancels and one Force pointing left is sent.
ForceIffHeldDirectionWitness ==
    /\ "keyboard_system" \in ran
    /\ keyboard_inputs.pressed = {"Up", "Down", "Left"}
    /\ "Space" \notin keyboard_inputs.pressed
    /\ OfType(keyboard_sent, {"Force"}) = <<Force(<<-Unit, 0>>)>>

(***************************************************************************)
(* Claims about Heat::inc (SpecHeat).                                      *)
(***************************************************************************)
\* C4: heat is always in [0, 1]: whatever sequence of Heat::inc calls with
\* positive or negative deltas is made from amount 0, amount stays between
\* 0 and 1 (0 and 100 hundredths).
HeatInRange == heat >= 0 /\ heat <= HeatOne

\* C4 witness: the upper clamp has acted: an inc whose delta alone exceeds 1
\* left the amount at exactly 1.
HeatInRangeWitness == heat = HeatOne /\ inc_value > HeatOne

(***************************************************************************)
(* Claims about Cooldown (SpecCooldown).                                   *)
(***************************************************************************)
\* C5: for a duration d > 0, once start() has been called the cooldown is
\* ready exactly when the time ticked since the most recent start() is at
\* least d: not ready right after start(), not ready while less than d has
\* been ticked, ready from the tick that reaches d, and again not ready from
\* zero after a later start().
ReadyIffTickedDuration ==
    (cd_since >= 0 /\ cd.duration > 0)
        => (Cooldown_finished(cd) <=> cd_since >= cd.duration)

\* C5 witness: a started cooldown of duration > 1 that a tick has just
\* brought to exactly its duration, from a partly elapsed state.
ReadyIffTickedDurationWitness ==
    /\ cd_op = "tick"
    /\ cd.duration > 1
    /\ cd_since = cd.duration
    /\ cd_pre.elapsed > 0
    /\ ~Cooldown_finished(cd_pre)
    /\ Cooldown_finished(cd)

\* C6: for a duration d > 0, a cooldown is ready immediately after
\* Cooldown::from_seconds(d), before any start or tick.
ReadyAfterConstruction ==
    (cd_op = "new" /\ cd.duration > 0) => Cooldown_finished(cd)

\* C6 witness: a freshly built cooldown of positive duration that is ready.
ReadyAfterConstructionWitness ==
    cd_op = "new" /\ cd.duration > 1 /\ Cooldown_finished(cd)

\* C7: ticking a ready cooldown keeps it ready and leaves its elapsed time
\* at the duration (no overflow, wraparound or re-trigger), and a ready
\* cooldown becomes not ready only through start().
TickKeepsReady ==
    /\ (cd_op = "tick" /\ Cooldown_finished(cd_pre))
          => /\ Cooldown_finished(cd)
             /\ cd.elapsed = cd_pre.elapsed
             /\ cd.elapsed = cd.duration
             /\ cd.duration = cd_pre.duration
    /\ (Cooldown_finished(cd_pre) /\ ~Cooldown_finished(cd)) => cd_op = "start"

\* C7 witness: a cooldown of positive duration that was started, became
\* ready, and was then ticked again past its duration.
TickKeepsReadyWitness ==
    /\ cd_op = "tick"
    /\ cd.duration > 0
    /\ Cooldown_finished(cd_pre)
    /\ Cooldown_finished(cd)
    /\ cd_since > cd.duration

\* C8: a cooldown whose duration is zero is always ready, also right after
\* start() with no tick in between.
ZeroDurationAlwaysReady ==
    cd.duration = 0 => Cooldown_finished(cd)

(***************************************************************************)
(* Claims about apply_forces (Spec).                                       *)
(***************************************************************************)
\* C1: cooldown sharing: an Accelerate event processed after an applied
\* Impulse, while the time ticked since that Impulse is below the cooldown
\* duration, is dropped: the world after it equals the world before it (no
\* impulse, no heat change, nothing else), so only the Impulse acted.
AccelerateDroppedAfterImpulse ==
    \A i \in EventIndices :
        ( /\ input_events[i] = Accelerate
          /\ Before(i).last_gated = "Impulse"
          /\ Before(i).since_gated < ImpulseCooldownSeconds )
            => After(i) = Before(i)

\* C1 witness: an Accelerate processed in a later tick than the applied
\* Impulse, with some but not enough time ticked, by a moving body whose
\* heat still shows the Impulse.
AccelerateDroppedAfterImpulseWitness ==
    \E i \in EventIndices :
        /\ input_events[i] = Accelerate
        /\ Before(i).last_gated = "Impulse"
        /\ Before(i).since_gated > 0
        /\ Before(i).since_gated < ImpulseCooldownSeconds
        /\ Before(i).linvel # ZERO
        /\ Before(i).heat = ImpulseHeat
        /\ world.impulse = ZERO

\* C2: force clearing: in a tick with no Force event, the persistent force
\* is zero when event processing starts, whatever a Force event of the
\* previous tick had set.
ForceClearedBeforeEvents ==
    (\A i \in EventIndices : input_events[i].type # "Force")
        => Before(1).force = ZERO

\* C3: a Stabilisation event applies in every cooldown state: it sets the
\* stabilisation damping, lowers heat (strictly, unless heat is already 0)
\* and leaves the cooldown as it was.
StabilisationAlwaysApplies ==
    \A i \in EventIndices :
        input_events[i] = Stabilisation
            => /\ After(i).linear_damping = stabilisation_damping
               /\ After(i).heat <= Before(i).heat
               /\ (Before(i).heat > 0 => After(i).heat < Before(i).heat)
               /\ After(i).impulse_cooldown = Before(i).impulse_cooldown

\* C3 witness: a Stabilisation processed right after an Impulse started the
\* cooldown in the same tick, with heat and the default damping to change.
StabilisationAlwaysAppliesWitness ==
    \E i \in EventIndices :
        /\ input_events[i] = Stabilisation
        /\ ~Cooldown_finished(Before(i).impulse_cooldown)
        /\ Before(i).impulse_cooldown.elapsed = 0
        /\ Before(i).since_gated = 0
        /\ Before(i).heat > 0
        /\ Before(i).linear_damping = default_damping
        /\ After(i).linear_damping = stabilisation_damping

\* C14: an Impulse or Accelerate event processed while the cooldown is not
\* ready changes nothing: velocity, damping, force, heat and the requested
\* impulse stay as they were, the cooldown is not restarted, and nothing is
\* kept of the event for a later tick (the whole world is as before).
GatedEventDroppedChangesNothing ==
    \A i \in EventIndices :
        ( /\ input_events[i].type \in {"Impulse", "Accelerate"}
          /\ ~Cooldown_finished(Before(i).impulse_cooldown) )
            => After(i) = Before(i)

\* C14 witness: an Impulse dropped in a tick after the one that started the
\* cooldown, with some time ticked, and the tick ends with the cooldown
\* still counting from the first start.
GatedEventDroppedChangesNothingWitness ==
    \E i \in EventIndices :
        /\ input_events[i].type = "Impulse"
        /\ ~Cooldown_finished(Before(i).impulse_cooldown)
        /\ Before(i).impulse_cooldown.elapsed > 0
        /\ Before(i).impulse = ZERO
        /\ world.impulse_cooldown.elapsed > 0
        /\ ticks >= 2

\* the indices of the Impulse and Accelerate events of the last tick
GatedIndices ==
    {i \in EventIndices : input_events[i].type \in {"Impulse", "Accelerate"}}

\* the i-th event of the last tick got past the cooldown test of its arm
Applied(i) == i \in GatedIndices /\ After(i) # Before(i)

\* the events of the last tick that assigned linear_damping
DampingSetters ==
    {i \in EventIndices :
        \/ input_events[i].type \in {"Force", "Stabilisation"}
        \/ input_events[i].type = "Impulse" /\ Applied(i)}

\* C19: the cooldown is advanced by the tick's delta before the events are
\* looked at, and the events are processed in emission order: when the
\* cooldown was never started, or the time ticked since its last start
\* reaches the duration with this tick's delta, the first gated event of
\* the tick is applied in this tick; and the damping at the end of the tick
\* is the one assigned by the last event that assigns it (Force or applied
\* Impulse: default, Stabilisation: stabilisation), or the damping the
\* tick started with if no event assigns it.
TickThenEventsInOrder ==
    /\ ( /\ ticks > 0
         /\ GatedIndices # {}
         /\ \/ pre.last_gated = "none"
            \/ pre.since_gated + time_delta >= ImpulseCooldownSeconds )
          => LET first == CHOOSE i \in GatedIndices :
                              \A j \in GatedIndices : i <= j
             IN  /\ world.last_gated = input_events[first].type
                 /\ world.since_gated = 0
                 /\ ~Cooldown_finished(world.impulse_cooldown)
                 /\ world.impulse_cooldown.elapsed = 0
    /\ IF DampingSetters = {}
       THEN world.linear_damping = pre.linear_damping
       ELSE LET last == CHOOSE i \in DampingSetters :
                            \A j \in DampingSetters : i >= j
            IN  world.linear_damping =
                    IF input_events[last].type = "Stabilisation"
                    THEN stabilisation_damping ELSE default_damping

\* C19 witness: the cooldown was started two ticks ago, the deltas of the
\* two ticks since reach the duration only together, and the last tick
\* reads a gated event followed by a Stabilisation: the gated event is
\* applied and the tick ends with the stabilisation damping.
TickThenEventsInOrderWitness ==
    /\ pre.last_gated # "none"
    /\ pre.since_gated > 0
    /\ pre.since_gated < ImpulseCooldownSeconds
    /\ time_delta < ImpulseCooldownSeconds
    /\ pre.since_gated + time_delta >= ImpulseCooldownSeconds
    /\ Len(input_events) = 2
    /\ input_events[1].type = "Impulse"
    /\ input_events[2].type = "Stabilisation"
    /\ world.since_gated = 0
    /\ world.impulse # ZERO
    /\ world.linear_damping = stabilisation_damping

\* C20: at most one Impulse or Accelerate event is applied per tick, and
\* when one is applied after an earlier applied one, the deltas ticked by
\* apply_forces since that earlier one sum to at least the cooldown
\* duration.
OneGatedActionPerCooldown ==
    /\ Cardinality({i \in EventIndices : Applied(i)}) <= 1
    /\ \A i \in EventIndices :
          (Applied(i) /\ Before(i).last_gated # "none")
              => Before(i).since_gated >= ImpulseCooldownSeconds

\* C20 witness: a tick reads two gated events when the deltas ticked since
\* an applied Impulse have reached the duration over two ticks; the first
\* is applied, the second is dropped.
OneGatedActionPerCooldownWitness ==
    /\ Len(input_events) = 2
    /\ GatedIndices = {1, 2}
    /\ input_events[1].type = "Accelerate"
    /\ Applied(1)
    /\ ~Applied(2)
    /\ Before(1).last_gated = "Impulse"
    /\ time_delta < ImpulseCooldownSeconds
    /\ Before(1).since_gated >= ImpulseCooldownSeconds

\* the events of the last tick that restore the default damping: a Force,
\* and an Impulse that finds the cooldown ready
DampingRestorers ==
    {i \in EventIndices :
        \/ input_events[i].type = "Force"
        \/ /\ input_events[i].type = "Impulse"
           /\ Cooldown_finished(Before(i).impulse_cooldown)}

\* C22: the stabilisation damping, once set, stays until a Force event or
\* an Impulse that finds the cooldown ready is processed: the tick of the
\* cooldown leaves the damping as the previous frame left it, and every
\* other event processed under the stabilisation damping (a dropped
\* Impulse, an Accelerate applied or dropped, a Stabilisation) leaves the
\* stabilisation damping in place.
StabilisationDampingPersists ==
    /\ Before(1).linear_damping = pre.linear_damping
    /\ \A i \in EventIndices :
          ( /\ Before(i).linear_damping = stabilisation_damping
            /\ i \notin DampingRestorers )
              => After(i).linear_damping = stabilisation_damping
    /\ ( /\ pre.linear_damping = stabilisation_damping
         /\ DampingRestorers = {} )
           => world.linear_damping = stabilisation_damping

\* C22 witness: a frame that starts with the stabilisation damping an
\* earlier frame's Stabilisation has set, and reads an Accelerate that is
\* applied and then an Impulse that is dropped: the damping is still the
\* stabilisation damping at the end.
StabilisationDampingPersistsWitness ==
    /\ ticks >= 2
    /\ pre.linear_damping = stabilisation_damping
    /\ Len(input_events) = 2
    /\ input_events[1].type = "Accelerate"
    /\ Applied(1)
    /\ input_events[2].type = "Impulse"
    /\ ~Cooldown_finished(Before(2).impulse_cooldown)
    /\ world.linear_damping = stabilisation_damping

(***************************************************************************)
(* Claims about one event of apply_forces (SpecEvent).                     *)
(***************************************************************************)
\* C15: an Impulse event processed while the cooldown is ready restarts the
\* cooldown, sets the default damping, requests the impulse direction *
\* impulse_value and raises heat by the Impulse increment, clamped to 1;
\* from heat 0 it leaves heat equal to the increment.
ReadyImpulseApplied ==
    ( /\ arm_done
      /\ arm_event.type = "Impulse"
      /\ Cooldown_finished(arm_world.impulse_cooldown) )
        => /\ ~Cooldown_finished(arm_result.impulse_cooldown)
           /\ arm_result.impulse_cooldown.elapsed = 0
           /\ arm_result.linear_damping = default_damping
           /\ arm_result.impulse = <<arm_event.direction[1] * impulse_value,
                                     arm_event.direction[2] * impulse_value>>
           /\ arm_result.heat = Min(HeatOne, arm_world.heat + ImpulseHeat)
           /\ (arm_world.heat = 0 => arm_result.heat = ImpulseHeat)

\* C15 witness: a diagonal Impulse applied to a cold, stabilised body.
ReadyImpulseAppliedWitness ==
    /\ arm_done
    /\ arm_event.type = "Impulse"
    /\ arm_event.direction[1] # 0
    /\ arm_event.direction[2] # 0
    /\ Cooldown_finished(arm_world.impulse_cooldown)
    /\ arm_world.heat = 0
    /\ arm_world.linear_damping = stabilisation_damping
    /\ arm_result.heat = ImpulseHeat

\* C16: an Accelerate event processed while the cooldown is ready restarts
\* the cooldown, requests the impulse linvel * acceleration_value (zero for
\* a body at rest) and raises heat by the Accelerate increment, clamped to
\* 1; the damping and the persistent force stay as they were.
ReadyAccelerateApplied ==
    ( /\ arm_done
      /\ arm_event.type = "Accelerate"
      /\ Cooldown_finished(arm_world.impulse_cooldown) )
        => /\ ~Cooldown_finished(arm_result.impulse_cooldown)
           /\ arm_result.impulse_cooldown.elapsed = 0
           /\ 10 * arm_result.impulse[1] =
                  acceleration_value_tenths * arm_world.linvel[1]
           /\ 10 * arm_result.impulse[2] =
                  acceleration_value_tenths * arm_world.linvel[2]
           /\ (arm_world.linvel = ZERO => arm_result.impulse = ZERO)
           /\ arm_result.heat = Min(HeatOne, arm_world.heat + AccelerateHeat)
           /\ arm_result.linear_damping = arm_world.linear_damping
           /\ arm_result.force = arm_world.force

\* C16 witness: an Accelerate applied to a moving, stabilised body that a
\* Force event has left a force on.
ReadyAccelerateAppliedWitness ==
    /\ arm_done
    /\ arm_event.type = "Accelerate"
    /\ Cooldown_finished(arm_world.impulse_cooldown)
    /\ arm_world.linvel # ZERO
    /\ arm_result.impulse # ZERO
    /\ arm_world.linear_damping = stabilisation_damping
    /\ arm_world.force # ZERO
    /\ arm_result.heat = arm_world.heat + AccelerateHeat

\* C17: a Force event is applied in every cooldown state: it sets the
\* default damping, makes the persistent force direction * force_value
\* whatever the force was, raises heat by the Force increment, clamped to
\* 1, and leaves the cooldown as it was.
ForceNeverGated ==
    (arm_done /\ arm_event.type = "Force")
        => /\ arm_result.linear_damping = default_damping
           /\ arm_result.force = <<arm_event.direction[1] * force_value,
                                    arm_event.direction[2] * force_value>>
           /\ arm_result.heat = Min(HeatOne, arm_world.heat + ForceHeat)
           /\ arm_result.impulse_cooldown = arm_world.impulse_cooldown

\* C17 witness: a Force processed while the cooldown is counting, on a
\* stabilised body that carries the force of another direction.
ForceNeverGatedWitness ==
    /\ arm_done
    /\ arm_event.type = "Force"
    /\ ~Cooldown_finished(arm_world.impulse_cooldown)
    /\ arm_world.impulse_cooldown.elapsed > 0
    /\ arm_world.force # ZERO
    /\ arm_world.force # arm_result.force
    /\ arm_world.linear_damping = stabilisation_damping
    /\ arm_result.heat = arm_world.heat + ForceHeat

\* C18: after a Stabilisation event has been processed heat is exactly 0,
\* whatever it was before.
StabilisationZeroesHeat ==
    (arm_done /\ arm_event.type = "Stabilisation") => arm_result.heat = 0

\* C18 witness: a Stabilisation processed at full heat.
StabilisationZeroesHeatWitness ==
    /\ arm_done
    /\ arm_event.type = "Stabilisation"
    /\ arm_world.heat = HeatOne
    /\ arm_result.heat = 0

(***************************************************************************)
(* Claims about two runs fed the same events (SpecReplay).                 *)
(***************************************************************************)
\* C12 as stated: two runs that process the same events have the same heat
\* after each event, whatever deltas and velocities the runs are given.
HeatFunctionOfEventsOnly ==
    heats_a = heats_b /\ run_a.heat = run_b.heat

\* C12 amended: two runs that process the same events, and in which the
\* cooldown has let the same Impulse and Accelerate events through, have
\* the same heat after each event, whatever deltas and velocities the runs
\* are given.
HeatFunctionOfAppliedEvents ==
    same_applied => (heats_a = heats_b /\ run_a.heat = run_b.heat)

\* C12 witness: two runs that have applied and dropped the same events,
\* were given different deltas (their timers differ) and different
\* velocities, and have heated up.
HeatFunctionOfAppliedEventsWitness ==
    /\ same_applied
    /\ replay_ticks = MaxReplayTicks
    /\ run_a.impulse_cooldown # run_b.impulse_cooldown
    /\ run_a.linvel # run_b.linvel
    /\ Len(heats_a) > 0
    /\ run_a.heat >= ImpulseHeat + ForceHeat
    /\ replay_events[1].type = "Impulse"
    /\ run_a.last_gated = "Accelerate"

(***************************************************************************)
(* Claims about the delivery of events (SpecSchedule).                     *)
(***************************************************************************)
\* C13: every event the input systems send is iterated over by apply_forces
\* exactly once, in the frame it was sent in: no event is read twice, none
\* is read in a later frame, and when the three systems of a frame have
\* run every event sent so far has been read, in whatever order the
\* systems ran.
EventConsumedOnceInItsFrame ==
    /\ \A i \in 1..Len(processed) :
          processed[i].read_frame = processed[i].event.sent_frame
    /\ \A i \in 1..Len(processed), j \in 1..Len(processed) :
          processed[i].event_id = processed[j].event_id => i = j
    /\ sys_ran = Systems => Len(processed) = event_buffers.event_count

(***************************************************************************)
(* Claims about the endless run of apply_forces (SpecLive).                *)
(***************************************************************************)
\* the cooldown is ready when the last frame's tick of it has been made,
\* before the frame's events are looked at
ReadyAfterTick ==
    Cooldown_finished(tick_cooldown(pre, time_delta).impulse_cooldown)

\* C21: a gated action is never blocked forever: while frames with a
\* positive delta keep occurring, the cooldown is ready after the tick of
\* some later frame again and again, however often an applied Impulse or
\* Accelerate restarts it, and every Impulse or Accelerate event that finds
\* the cooldown ready is applied.
GatedNeverBlockedForever ==
    /\ []<>ReadyAfterTick
    /\ [](\A i \in GatedIndices :
             Cooldown_finished(Before(i).impulse_cooldown) => Applied(i))

\* C21 witness: the end of a frame whose positive delta made ready a
\* cooldown that was started in an earlier frame and was still counting,
\* and whose first event, a gated one, was applied.
GatedNeverBlockedForeverWitness ==
    /\ pre.last_gated # "none"
    /\ ~Cooldown_finished(pre.impulse_cooldown)
    /\ pre.since_gated > 0
    /\ time_delta > 0
    /\ Cooldown_finished(Before(1).impulse_cooldown)
    /\ 1 \in GatedIndices
    /\ Applied(1)
    /\ world.since_gated = 0

=============================================================================
